---- MODULE Spec2Model ----
(***************************************************************************)
(* A model of the kvs key-value store: the log-structured engine           *)
(* (src/src/engines/kvs.rs), the sled adapter (src/src/engines/sled.rs)    *)
(* and the KvsEngine trait they share.                                     *)
(*                                                                         *)
(* Log files are sequences of symbols.  One symbol stands for a chunk of    *)
(* bytes of the JSON text: "S" for the opening of a Set record up to its   *)
(* key, "R" for the opening of a Remove record, a key or a value for its   *)
(* text and what follows it (the closing braces after the last field), and *)
(* "\n" for the framing newline.  Offsets and lengths count symbols; the   *)
(* framing newline is one symbol, as it is one byte in the code.           *)
(***************************************************************************)
EXTENDS Integers, Sequences, FiniteSets, TLC

\* ------------------------------------------------------------------ bounds
\* Largest generation number a run may reach.
MaxGen == 4
\* Largest generation number a run without faults may reach when it is
\* followed through a second compaction of the same store object.
MaxGenLong == 5
\* Largest number of entries other programs put into the directory.
MaxForeign == 2
\* Largest number of I/O faults, crashes and disk corruptions in one run.
MaxFaults == 1
\* Largest total size (in symbols) of the log files a call may start from
\* and still append a record.
MaxDisk == 16
\* Request frames the clients send in one run, and frames a connection holds
\* unread.
MaxReqs == 4
MaxPending == 2

\* ------------------------------------------------------ program constants
\* COMPACTION_THRESHOLD (1024 * 1024 bytes in the code), scaled to symbols:
\* two superseded Set records (4 symbols each) exceed it, one does not.
COMPACTION_THRESHOLD == 5
\* The capacity of std::io::BufWriter (8 KiB in the code), scaled to symbols:
\* one record fits, two do not.
BUF_CAPACITY == 6

Keys == {"a", "b"}
Values == {"1", "2"}
NL == "\n"

\* Option<String> and Result<_> values are strings: Some(v) is v itself.
None == "None"
Ok == "Ok"
ErrKeyNotFound == "Err:KeyNotFound"
ErrSerde == "Err:Serde"
ErrIo == "Err:Io"
Panic == "Panic"
Running == "Running"

\* --------------------------------------------------------- record codec
SetLog(k, v) == [type |-> "Set", key |-> k, value |-> v]
RemoveLog(k) == [type |-> "Remove", key |-> k, value |-> None]

\* KvLog::serialize: the JSON text of one record, without newline.
serialize(log) ==
    IF log.type = "Set" THEN <<"S", log.key, log.value>>
    ELSE <<"R", log.key>>

\* The byte at 0-based offset o of a file.
ByteAt(bytes, o) == bytes[o + 1]

\* serde_json's parse_whitespace: the first offset >= off that holds no
\* whitespace (Len(bytes) when only whitespace is left).
RECURSIVE SkipWs(_, _)
SkipWs(bytes, off) ==
    IF off < Len(bytes) /\ ByteAt(bytes, off) = NL
    THEN SkipWs(bytes, off + 1)
    ELSE off

\* The result of one StreamDeserializer::next call.
Parsed(kind, log, end) == [kind |-> kind, log |-> log, end |-> end]

\* Deserialize one KvLog whose first byte is at offset q: the external tag,
\* then the fields; running out of input is an error.
ParseAt(bytes, q) ==
    IF q >= Len(bytes) THEN Parsed("eof", RemoveLog(""), Len(bytes))
    ELSE IF ByteAt(bytes, q) = "S"
    THEN IF q + 2 < Len(bytes) /\ ByteAt(bytes, q + 1) \in Keys
            /\ ByteAt(bytes, q + 2) \in Values
         THEN Parsed("ok", SetLog(ByteAt(bytes, q + 1), ByteAt(bytes, q + 2)), q + 3)
         ELSE Parsed("err", RemoveLog(""), q)
    ELSE IF ByteAt(bytes, q) = "R"
    THEN IF q + 1 < Len(bytes) /\ ByteAt(bytes, q + 1) \in Keys
         THEN Parsed("ok", RemoveLog(ByteAt(bytes, q + 1)), q + 2)
         ELSE Parsed("err", RemoveLog(""), q)
    ELSE Parsed("err", RemoveLog(""), q)

\* StreamDeserializer::next at stream offset off: skip whitespace, then end of
\* stream, an error, or a record together with byte_offset() after it (one
\* past its last byte).
StreamNext(bytes, off) == ParseAt(bytes, SkipWs(bytes, off))

\* serde_json::from_str's Deserializer::end: only whitespace may follow.
EndOk(s, r) ==
    IF r.kind = "ok" /\ SkipWs(s, r.end) = Len(s) THEN r
    ELSE Parsed("err", RemoveLog(""), 0)

\* KvLog::deserialize (serde_json::from_str): exactly one record, then only
\* whitespace up to the end of the string.
deserialize(s) == EndOk(s, StreamNext(s, 0))

\* BufRead::read_line from offset pos: the bytes up to and including the
\* next newline, or up to the end of the file.
RECURSIVE LineEnd(_, _)
LineEnd(bytes, off) ==
    IF off >= Len(bytes) THEN Len(bytes)
    ELSE IF ByteAt(bytes, off) = NL THEN off + 1
    ELSE LineEnd(bytes, off + 1)

\* A read that does not stop at the newline: everything up to the end of the
\* file.
ReadToEnd(bytes, pos) ==
    IF pos >= Len(bytes) THEN <<>>
    ELSE SubSeq(bytes, pos + 1, Len(bytes))

read_line(bytes, pos) ==
    IF pos >= Len(bytes) THEN <<>>
    ELSE SubSeq(bytes, pos + 1, LineEnd(bytes, pos))

\* ------------------------------------------------------------ small maps
Without(f, x) == [y \in DOMAIN f \ {x} |-> f[y]]
With(f, x, v) == [y \in DOMAIN f \cup {x} |-> IF y = x THEN v ELSE f[y]]
EmptyMap == [y \in {} |-> 0]

\* The total size of the log files.
RECURSIVE DiskSize(_)
DiskSize(fs) ==
    IF DOMAIN fs = {} THEN 0
    ELSE LET g == CHOOSE x \in DOMAIN fs : TRUE
         IN  Len(fs[g]) + DiskSize([y \in DOMAIN fs \ {g} |-> fs[y]])

\* impl From<(u64, Range<u64>)> for IndexPos
IndexPos(gen, start, end) == [gen |-> gen, pos |-> start, len |-> end - start]

\* ------------------------------------------------ positional buffered I/O
\* The file of generation g grows by data (O_APPEND); a handle whose file is
\* gone writes to nothing the directory can see.
FileAppend(fs, g, data) ==
    IF g \in DOMAIN fs THEN [fs EXCEPT ![g] = @ \o data] ELSE fs

FileBytes(fs, g) == IF g \in DOMAIN fs THEN fs[g] ELSE <<>>

\* BufWriterWithPos::new on a freshly opened handle: pos is the handle's
\* offset, 0, and the buffer is empty.
NewWriter(g) == [gen |-> g, pos |-> 0, buf |-> <<>>]

\* A write that does not advance pos.
BufWriteKeepsPos(w, fs, data) ==
    [w |-> [w EXCEPT !.buf = @ \o data], files |-> fs]

\* BufWriterWithPos::write over std's BufWriter::write: data that does not
\* fit in the spare capacity flushes the buffer first; data as large as the
\* buffer goes straight to the file; pos grows by the bytes accepted.
BufWrite(w, fs, data) ==
    LET cold == Len(w.buf) + Len(data) > BUF_CAPACITY
        fs1 == IF cold THEN FileAppend(fs, w.gen, w.buf) ELSE fs
        buf1 == IF cold THEN <<>> ELSE w.buf
    IN  IF Len(data) >= BUF_CAPACITY
        THEN [w |-> [w EXCEPT !.buf = buf1, !.pos = @ + Len(data)],
              files |-> FileAppend(fs1, w.gen, data)]
        ELSE [w |-> [w EXCEPT !.buf = buf1 \o data, !.pos = @ + Len(data)],
              files |-> fs1]

\* BufWriterWithPos::flush: the buffer goes to the file.
BufFlush(w, fs) ==
    [w |-> [w EXCEPT !.buf = <<>>], files |-> FileAppend(fs, w.gen, w.buf)]

\* Dropping a BufWriter flushes what it still holds.
DropWriter(w, fs) == FileAppend(fs, w.gen, w.buf)

\* KvStore::append_log_file without the flush (used only as a faulty variant).
AppendNoFlush(w, fs, log) == BufWrite(w, fs, serialize(log) \o <<NL>>)

\* KvStore::append_log_file: serialize, add the newline, write, flush.
append_log_file(w, fs, log) ==
    LET wr == BufWrite(w, fs, serialize(log) \o <<NL>>)
    IN  BufFlush(wr.w, wr.files)

\* ------------------------------------------------- log files, generations
\* A file name is a stem, a sequence of characters, followed by ext
\* repetitions of ".log"; the stem itself does not end in ".log".
Name(stem, ext) == [stem |-> stem, ext |-> ext]
Entry(name, is_file) == [name |-> name, is_file |-> is_file]

\* u64's Display: the decimal digits of n.
Digit == <<"0", "1", "2", "3", "4", "5", "6", "7", "8", "9">>

RECURSIVE Decimal(_)
Decimal(n) ==
    IF n < 10 THEN <<Digit[n + 1]>>
    ELSE Append(Decimal(n \div 10), Digit[(n % 10) + 1])

\* KvStore::log_file_path: format!("{}.log", gen)
log_file_path(gen) == Name(Decimal(gen), 1)

\* str::parse::<u64>: an optional "+", then one or more decimal digits; -1
\* stands for Err.
IsDigit(c) == \E d \in 1..10 : Digit[d] = c
DigitValue(c) == (CHOOSE d \in 1..10 : Digit[d] = c) - 1

RECURSIVE ParseDigits(_, _)
ParseDigits(s, acc) ==
    IF s = <<>> THEN acc
    ELSE IF ~IsDigit(Head(s)) THEN -1
    ELSE ParseDigits(Tail(s), 10 * acc + DigitValue(Head(s)))

parse_u64(s) ==
    IF s = <<>> THEN -1
    ELSE IF Head(s) = "+"
    THEN (IF Tail(s) = <<>> THEN -1 ELSE ParseDigits(Tail(s), 0))
    ELSE ParseDigits(s, 0)

\* Path::extension() == Some("log"): the name ends in ".log" and is more than
\* a leading dot and "log".
has_log_extension(name) == name.ext >= 1 /\ ~(name.stem = <<>> /\ name.ext = 1)

\* The filter and the flat_map of get_sorted_gen_list: every regular file with
\* the extension log, with what its name parses to once every trailing ".log"
\* is trimmed off; the names that do not parse are dropped.
ParsedEntry(e) == [gen |-> parse_u64(e.name.stem), entry |-> e]

LogEntries(dir) ==
    {x \in {ParsedEntry(e) :
                e \in {f \in dir : f.is_file /\ has_log_extension(f.name)}} :
        x.gen # -1}

\* sort_unstable of the parsed generations, one for every entry that passed.
RECURSIVE SortedSeq(_)
SortedSeq(S) ==
    IF S = {} THEN <<>>
    ELSE LET m == CHOOSE x \in S : \A y \in S : x.gen <= y.gen
         IN  <<m.gen>> \o SortedSeq(S \ {m})

\* The same list without the sort: read_dir yields the entries in any order,
\* here the newest first.
RECURSIVE UnsortedSeq(_)
UnsortedSeq(S) ==
    IF S = {} THEN <<>>
    ELSE LET m == CHOOSE x \in S : \A y \in S : x.gen >= y.gen
         IN  <<m.gen>> \o UnsortedSeq(S \ {m})

UnsortedGenList(dir) == UnsortedSeq(LogEntries(dir))

\* KvStore::get_sorted_gen_list on the entries read_dir yields.
get_sorted_gen_list(dir) == SortedSeq(LogEntries(dir))

\* read_dir: the log files fs under their names and the other entries of the
\* directory.
read_dir(fs, foreign) == {Entry(log_file_path(g), TRUE) : g \in DOMAIN fs} \cup foreign

\* KvStore::create_log_file: open <gen>.log in append mode, creating it when
\* missing; register a reader at offset 0 unless one is registered already.
create_log_file(fs, rd, gen) ==
    [files  |-> IF gen \in DOMAIN fs THEN fs ELSE With(fs, gen, <<>>),
     reader |-> IF gen \in DOMAIN rd THEN rd ELSE With(rd, gen, 0),
     writer |-> NewWriter(gen)]

\* ------------------------------------------------------------------ replay
Replayed(ok, idx, unc) == [ok |-> ok, index |-> idx, uncompacted |-> unc]

\* The length replay adds to uncompacted for the entry a record supersedes.
OldLen(idx, key) == IF key \in DOMAIN idx THEN idx[key].len ELSE 0

\* The match of KvStore::replay_log_file on one record that starts at pos and
\* ends before cur_pos.
ReplayLog(gen, idx, unc, log, pos, cur_pos) ==
    IF log.type = "Set"
    THEN Replayed(TRUE, With(idx, log.key, IndexPos(gen, pos, cur_pos)),
                  unc + OldLen(idx, log.key))
    ELSE Replayed(TRUE, Without(idx, log.key),
                  unc + OldLen(idx, log.key) + (cur_pos - pos))

\* The loop of KvStore::replay_log_file.  off is the deserializer's own stream
\* offset; pos is the engine's idea of where the next record starts, the end
\* of the record before it plus one.
RECURSIVE ReplayLoop(_, _, _, _, _)
RECURSIVE ReplayNext(_, _, _, _, _)
ReplayNext(gen, bytes, pos, acc, r) ==
    IF r.kind = "eof" THEN acc
    ELSE IF r.kind = "err" THEN Replayed(FALSE, acc.index, acc.uncompacted)
    ELSE ReplayLoop(gen, bytes, r.end, r.end + 1,
                    ReplayLog(gen, acc.index, acc.uncompacted, r.log, pos, r.end))

ReplayLoop(gen, bytes, off, pos, acc) ==
    ReplayNext(gen, bytes, pos, acc, StreamNext(bytes, off))

\* KvStore::replay_log_file: seek to 0, then replay every record.
replay_log_file(gen, bytes, idx) ==
    ReplayLoop(gen, bytes, 0, 0, Replayed(TRUE, idx, 0))

\* The for loop of KvStore::open over the sorted generation list.  A reader
\* that replayed its file has consumed all of it.
Opened(res, idx, rd, unc) ==
    [ok |-> res = Ok, res |-> res, index |-> idx, reader |-> rd, uncompacted |-> unc]

RECURSIVE OpenLoop(_, _, _, _)
RECURSIVE OpenNext(_, _, _, _, _)
OpenNext(fs, gen_list, i, acc, r) ==
    IF ~r.ok THEN Opened(ErrSerde, acc.index, acc.reader, acc.uncompacted)
    ELSE OpenLoop(fs, gen_list, i + 1,
                  Opened(Ok, r.index,
                         With(acc.reader, gen_list[i], Len(fs[gen_list[i]])),
                         acc.uncompacted + r.uncompacted))

OpenLoop(fs, gen_list, i, acc) ==
    IF i > Len(gen_list) THEN acc
    ELSE IF gen_list[i] \notin DOMAIN fs
    THEN Opened(ErrIo, acc.index, acc.reader, acc.uncompacted)
    ELSE OpenNext(fs, gen_list, i, acc,
                  replay_log_file(gen_list[i], fs[gen_list[i]], acc.index))

\* An open that goes on writing to the last listed generation.
LastGen(gen_list) ==
    IF gen_list = <<>> THEN 1 ELSE gen_list[Len(gen_list)]

\* current_gen of KvStore::open: the last listed generation plus one.
NextGen(gen_list) ==
    (IF gen_list = <<>> THEN 0 ELSE gen_list[Len(gen_list)]) + 1

\* The store KvStore::open returns: the replayed state and the new active file.
OpenStore(r, c, gen) ==
    [ok |-> r.ok, res |-> r.res, index |-> r.index, reader |-> c.reader,
     writer |-> c.writer,
     files |-> c.files, current_gen |-> gen, uncompacted |-> r.uncompacted]

OpenWith(fs, r, gen) == OpenStore(r, create_log_file(fs, r.reader, gen), gen)

OpenList(fs, gen_list) ==
    OpenWith(fs, OpenLoop(fs, gen_list, 1, Opened(Ok, EmptyMap, EmptyMap, 0)),
             NextGen(gen_list))

\* KvStore::open on a directory holding the log files fs and the entries
\* foreign.
OpenDir(fs, foreign) == OpenList(fs, get_sorted_gen_list(read_dir(fs, foreign)))

\* KvStore::open on a directory holding nothing but the log files fs.
open(fs) == OpenDir(fs, {})

\* The entries of the directory besides the log files: the server's file
\* named engine when it is there, and the entries oth.
MarkerEntry == Entry(Name(<<"e", "n", "g", "i", "n", "e">>, 0), TRUE)
Foreign(m, oth) == oth \cup (IF m = "none" THEN {} ELSE {MarkerEntry})

\* ------------------------------------------------------------------- state
VARIABLES
    engine,        \* which KvsEngine the server runs: "kvs" or "sled"
    pc,            \* where the engine is: "idle" between calls, "compact",
                   \* "copy", "remove" inside KvStore::compact, "panicked",
                   \* "crashed", "open_failed" when no store object exists
    files,         \* the directory: generation -> contents of <generation>.log
    index,         \* KvStore.index: key -> IndexPos
    reader,        \* KvStore.reader: generation -> pos of its BufReaderWithPos
    writer,        \* KvStore.writer: the file it appends to, pos, buffer
    current_gen,   \* KvStore.current_gen
    uncompacted,   \* KvStore.uncompacted
    comp,          \* the locals of a running KvStore::compact
    sled,          \* the sled::Db of SledStore: in memory and flushed
    last,          \* the last open, set or remove call that changed the store
    model,         \* history: key -> value of the last Set not followed by Remove
    prev,          \* history: key -> value the latest Set of the key overwrote
    index0,        \* history: the index when the running or failed set or
                   \* remove started (empty after a call that succeeded)
    faults,        \* history: the number of faults injected so far
    marker,        \* the contents of the file named engine, "none" without it
    others,        \* the entries of the directory that the program did not make
    srv            \* the kvs-server process, its one connection and the client

vars == <<engine, pc, files, index, reader, writer, current_gen, uncompacted,
          comp, sled, last, model, prev, index0, faults, marker, others, srv>>

kvsVars == <<files, index, reader, writer, current_gen, uncompacted, comp>>

NoComp == [gen |-> 0, w |-> NewWriter(0), todo |-> {}, rm |-> {}, cur |-> 0]
NoneMap == [k \in Keys |-> None]
Call(op, k, v, res, gen, pos) ==
    [op |-> op, key |-> k, value |-> v, res |-> res, gen |-> gen, pos |-> pos]

\* --------------------------------------------------- KvsServer::serve frames
\* A request frame; "bad" is bytes that do not decode as a Request.
GetReq(k) == [op |-> "get", key |-> k, value |-> ""]
SetReq(k, v) == [op |-> "set", key |-> k, value |-> v]
RemoveReq(k) == [op |-> "rm", key |-> k, value |-> ""]
BadReq == [op |-> "bad", key |-> "", value |-> ""]
NoReq == [op |-> "none", key |-> "", value |-> ""]
\* The requests the client sends: the server treats all keys alike, so one
\* key stands for the others.
ClientKeys == {"a"}
Requests ==
    {GetReq(k) : k \in ClientKeys} \cup {RemoveReq(k) : k \in ClientKeys}
        \cup {SetReq(k, v) : k \in ClientKeys, v \in Values}

\* impl Display for KvsError, the text before the inner error's own.
Display(e) ==
    CASE e = ErrKeyNotFound -> "Key not found"
      [] e = ErrIo -> "IO error"
      [] e = ErrSerde -> "Serde error"

\* The response frame serve builds from the engine's result: Ok carries the
\* value of a get, or null for an absent key and for set and remove; Err
\* carries format!("{}", e).
Frame(tag, body) == [tag |-> tag, body |-> body]
ResponseFrame(res) ==
    IF res \in {ErrKeyNotFound, ErrIo, ErrSerde} THEN Frame("Err", Display(res))
    ELSE IF res \in {None, Ok} THEN Frame("Ok", "null")
    ELSE Frame("Ok", res)

\* No server process: the engine is called as a library.
NoCli == [stdout |-> "", status |-> 0]
NoServer ==
    [pc |-> "none", flavor |-> "none", conn |-> "none", reqs |-> <<>>,
     cur |-> NoReq, sent |-> <<>>, resp |-> <<>>, exp |-> <<>>, nread |-> 0,
     cli |-> NoCli, shadow |-> NoneMap, total |-> 0]

\* A serve that returns after it has sent an Err frame.
RespondThenReturn(s, res) ==
    IF s.pc # "call" THEN s
    ELSE IF res = Panic THEN [s EXCEPT !.pc = "dead"]
    ELSE [s EXCEPT !.pc = IF ResponseFrame(res).tag = "Err" THEN "listening"
                          ELSE "serving",
                   !.conn = IF ResponseFrame(res).tag = "Err" THEN "fault" ELSE @,
                   !.cur = NoReq, !.resp = Append(@, ResponseFrame(res))]

\* send_resp! after the engine call of the request in hand: the frame is
\* written and flushed and serve goes back to reading.  A panic of the engine
\* unwinds through serve and run and ends the process.
Respond(s, res) ==
    IF s.pc # "call" THEN s
    ELSE IF res = Panic THEN [s EXCEPT !.pc = "dead"]
    ELSE [s EXCEPT !.pc = "serving", !.cur = NoReq,
                   !.resp = Append(@, ResponseFrame(res))]

\* The server starts one engine: KvStore::open on an empty directory, or
\* SledStore::new on an empty database.
Init ==
    /\ engine \in {"kvs", "sled"}
    /\ pc = "idle"
    /\ LET o == open(EmptyMap)
       IN  /\ files = (IF engine = "kvs" THEN o.files ELSE EmptyMap)
           /\ index = o.index
           /\ reader = (IF engine = "kvs" THEN o.reader ELSE EmptyMap)
           /\ writer = (IF engine = "kvs" THEN o.writer ELSE NewWriter(0))
           /\ current_gen = (IF engine = "kvs" THEN o.current_gen ELSE 0)
           /\ uncompacted = o.uncompacted
    /\ comp = NoComp
    /\ sled = [mem |-> NoneMap, disk |-> NoneMap]
    /\ last = Call("open", "", None, Ok, 0, 0)
    /\ model = NoneMap
    /\ prev = NoneMap
    /\ index0 = EmptyMap
    /\ faults = 0
    /\ marker = "none"
    /\ others = {}
    /\ srv = NoServer

\* ------------------------------------------------------------ KvStore::get
\* The result of get and the reader map it leaves behind.
\* A get that leaves every reader at the end of the record it read.
GetMovesEveryReader(idx, rd, fs, key) ==
    IF key \notin DOMAIN idx THEN [res |-> None, reader |-> rd]
    ELSE LET index_pos == idx[key]
         IN  IF index_pos.gen \notin DOMAIN rd
             THEN [res |-> Panic, reader |-> rd]
             ELSE LET buf == read_line(FileBytes(fs, index_pos.gen), index_pos.pos)
                      log == deserialize(buf)
                      rd1 == [g \in DOMAIN rd |-> index_pos.pos + Len(buf)]
                  IN  IF log.kind # "ok" THEN [res |-> ErrSerde, reader |-> rd1]
                      ELSE IF log.log.type = "Set"
                      THEN [res |-> log.log.value, reader |-> rd1]
                      ELSE [res |-> None, reader |-> rd1]

get(idx, rd, fs, key) ==
    IF key \notin DOMAIN idx THEN [res |-> None, reader |-> rd]
    ELSE LET index_pos == idx[key]
         IN  IF index_pos.gen \notin DOMAIN rd
             THEN [res |-> Panic, reader |-> rd]
             ELSE LET buf == read_line(FileBytes(fs, index_pos.gen), index_pos.pos)
                      log == deserialize(buf)
                      rd1 == [rd EXCEPT ![index_pos.gen] = index_pos.pos + Len(buf)]
                  IN  IF log.kind # "ok" THEN [res |-> ErrSerde, reader |-> rd1]
                      ELSE IF log.log.type = "Set"
                      THEN [res |-> log.log.value, reader |-> rd1]
                      ELSE [res |-> None, reader |-> rd1]

Get(k) ==
    /\ engine = "kvs" /\ pc = "idle"
    /\ LET g == get(index, reader, files, k)
       IN  /\ reader' = g.reader
           /\ pc' = IF g.res = Panic THEN "panicked" ELSE "idle"
           /\ srv' = Respond(srv, g.res)
    /\ UNCHANGED <<engine, files, index, writer, current_gen, uncompacted, comp,
                   sled, last, model, prev, index0, faults, marker, others>>

\* ------------------------------------------------------------ KvStore::set
SetIndex(idx, unc, key, gen, old_pos, cur_pos) ==
    [index |-> With(idx, key, IndexPos(gen, old_pos, cur_pos)),
     uncompacted |-> unc + (IF key \in DOMAIN idx THEN idx[key].len ELSE 0)]

\* set in a run that is followed up to generation max_gen.
SetWithin(k, v, max_gen) ==
    /\ engine = "kvs" /\ pc = "idle"
    /\ DiskSize(files) + Len(writer.buf) + Len(serialize(SetLog(k, v))) + 1 <= MaxDisk
    /\ LET old_pos == writer.pos
           a == append_log_file(writer, files, SetLog(k, v))
           cur_pos == a.w.pos
           i == SetIndex(index, uncompacted, k, current_gen, old_pos, cur_pos)
           compacts == i.uncompacted > COMPACTION_THRESHOLD
       IN  /\ compacts => current_gen + 2 <= max_gen
           /\ files' = a.files
           /\ writer' = a.w
           /\ index' = i.index
           /\ uncompacted' = i.uncompacted
           /\ pc' = IF compacts THEN "compact" ELSE "idle"
           /\ last' = Call("set", k, v, IF compacts THEN Running ELSE Ok,
                           writer.gen, old_pos)
           /\ index0' = IF compacts THEN index ELSE EmptyMap
           /\ srv' = IF compacts THEN srv ELSE Respond(srv, Ok)
    /\ model' = [model EXCEPT ![k] = v]
    /\ prev' = [prev EXCEPT ![k] = model[k]]
    /\ UNCHANGED <<engine, reader, current_gen, comp, sled, faults, marker, others>>

Set(k, v) == SetWithin(k, v, MaxGen)

\* --------------------------------------------------------- KvStore::remove
\* The result of remove and the index, writer and files it leaves behind.
Removed(res, idx, w, fs) == [res |-> res, index |-> idx, writer |-> w, files |-> fs]

RemoveAppended(idx, key, a) == Removed(Ok, Without(idx, key), a.w, a.files)

\* A remove that skips the contains_key test.
RemoveUnchecked(idx, w, fs, key) ==
    RemoveAppended(idx, key, append_log_file(w, fs, RemoveLog(key)))

remove(idx, w, fs, key) ==
    IF key \notin DOMAIN idx THEN Removed(ErrKeyNotFound, idx, w, fs)
    ELSE RemoveAppended(idx, key, append_log_file(w, fs, RemoveLog(key)))

Remove(k) ==
    /\ engine = "kvs" /\ pc = "idle"
    /\ k \in DOMAIN index =>
           DiskSize(files) + Len(writer.buf) + Len(serialize(RemoveLog(k))) + 1 <= MaxDisk
    /\ LET r == remove(index, writer, files, k)
       IN  /\ index' = r.index
           /\ writer' = r.writer
           /\ files' = r.files
           /\ last' = IF r.res = Ok THEN Call("remove", k, None, Ok, writer.gen, writer.pos)
                      ELSE last
           /\ model' = IF r.res = Ok THEN [model EXCEPT ![k] = None] ELSE model
           /\ prev' = IF r.res = Ok THEN [prev EXCEPT ![k] = None] ELSE prev
           /\ index0' = IF r.res = Ok THEN EmptyMap ELSE index0
           /\ srv' = Respond(srv, r.res)
    /\ UNCHANGED <<engine, pc, reader, current_gen, uncompacted, comp, sled, faults,
                   marker, others>>

\* -------------------------------------------------------- KvStore::compact
\* Lines 204-209: the two-generation bump and the two new files.  Assigning
\* self.writer drops the old writer.
CompactBegin ==
    /\ pc = "compact"
    /\ LET compact_gen == current_gen + 1
           c1 == create_log_file(DropWriter(writer, files), reader, current_gen + 2)
           c2 == create_log_file(c1.files, c1.reader, compact_gen)
       IN  /\ current_gen' = current_gen + 2
           /\ writer' = c1.writer
           /\ files' = c2.files
           /\ reader' = c2.reader
           /\ comp' = [gen |-> compact_gen, w |-> c2.writer, todo |-> DOMAIN index,
                       rm |-> {}, cur |-> 0]
    /\ pc' = "copy"
    /\ UNCHANGED <<engine, index, uncompacted, sled, last, model, prev, index0, faults,
                   marker, others, srv>>

\* Lines 210-221: one turn of the loop over index.values(), in the map's
\* arbitrary order.  A missing reader panics; unwinding drops the compaction
\* writer.
CompactCopy(k) ==
    /\ pc = "copy" /\ k \in comp.todo
    /\ LET index_pos == index[k]
       IN  IF index_pos.gen \notin DOMAIN reader
           THEN /\ pc' = "panicked"
                /\ files' = DropWriter(comp.w, files)
                /\ last' = [last EXCEPT !.res = Panic]
                /\ comp' = NoComp
                /\ srv' = Respond(srv, Panic)
                /\ UNCHANGED reader
           ELSE LET start == IF reader[index_pos.gen] # index_pos.pos
                             THEN index_pos.pos ELSE reader[index_pos.gen]
                    buf == read_line(FileBytes(files, index_pos.gen), start)
                    wr == BufWrite(comp.w, files, buf)
                IN  /\ reader' = [reader EXCEPT ![index_pos.gen] = start + Len(buf)]
                    /\ files' = wr.files
                    /\ comp' = [comp EXCEPT !.w = wr.w, !.todo = @ \ {k}]
                    /\ UNCHANGED <<pc, last, srv>>
    /\ UNCHANGED <<engine, index, writer, current_gen, uncompacted, sled, model,
                   prev, index0, faults, marker, others>>

\* A removal list that stops one generation short.
RemovedGensShort(rd, compact_gen) == {g \in DOMAIN rd : g + 1 < compact_gen}

\* Lines 225-230: the generations of the reader map below compact_gen.
should_removed_gens(rd, compact_gen) == {g \in DOMAIN rd : g < compact_gen}

\* Lines 222-230: flush the compaction writer, collect the generations below
\* compact_gen that the reader map holds.
CompactFlush ==
    /\ pc = "copy" /\ comp.todo = {}
    /\ LET f == BufFlush(comp.w, files)
       IN  /\ files' = f.files
           /\ comp' = [comp EXCEPT !.w = f.w,
                                   !.rm = should_removed_gens(reader, comp.gen)]
    /\ pc' = "remove"
    /\ UNCHANGED <<engine, index, reader, writer, current_gen, uncompacted, sled,
                   last, model, prev, index0, faults, marker, others, srv>>

\* A removal loop that deletes the file while its reader is registered.
CompactDeleteFirst(g) ==
    /\ pc = "remove" /\ comp.cur = 0 /\ g \in comp.rm
    /\ files' = Without(files, g)
    /\ comp' = [comp EXCEPT !.rm = @ \ {g}, !.cur = g]
    /\ UNCHANGED <<engine, pc, index, reader, writer, current_gen, uncompacted, sled,
                   last, model, prev, index0, faults, marker, others, srv>>

\* Lines 231-232: one turn of the removal loop, in the order the reader map's
\* keys came out: the reader of the generation is deregistered.
CompactDeregister(g) ==
    /\ pc = "remove" /\ comp.cur = 0 /\ g \in comp.rm
    /\ reader' = Without(reader, g)
    /\ comp' = [comp EXCEPT !.rm = @ \ {g}, !.cur = g]
    /\ UNCHANGED <<engine, pc, files, index, writer, current_gen, uncompacted, sled,
                   last, model, prev, index0, faults, marker, others, srv>>

\* Line 233: the file of the generation just deregistered is deleted.
CompactRemove ==
    /\ pc = "remove" /\ comp.cur # 0
    /\ files' = Without(files, comp.cur)
    /\ comp' = [comp EXCEPT !.cur = 0]
    /\ UNCHANGED <<engine, pc, index, reader, writer, current_gen, uncompacted, sled,
                   last, model, prev, index0, faults, marker, others, srv>>

\* Lines 236-237 and set's Ok(()): the counter is reset and set returns.
CompactEnd ==
    /\ pc = "remove" /\ comp.rm = {} /\ comp.cur = 0
    /\ uncompacted' = 0
    /\ pc' = "idle"
    /\ last' = [last EXCEPT !.res = Ok]
    /\ comp' = NoComp
    /\ index0' = EmptyMap
    /\ srv' = Respond(srv, Ok)
    /\ UNCHANGED <<engine, files, index, reader, writer, current_gen, sled, model,
                   prev, faults, marker, others>>

\* ----------------------------------------------------- close and reopen
\* The store is dropped (its writer flushes) or the process is gone, and
\* KvStore::open runs on the directory as it is.
ReopenWithin(max_gen) ==
    /\ engine = "kvs" /\ pc \in {"idle", "panicked", "crashed", "open_failed"}
    /\ LET fs == IF pc \in {"idle", "panicked"} THEN DropWriter(writer, files)
                 ELSE files
           o == OpenDir(fs, Foreign(marker, others))
       IN  /\ o.current_gen <= max_gen
           /\ IF o.ok
              THEN /\ files' = o.files
                   /\ index' = o.index
                   /\ reader' = o.reader
                   /\ writer' = o.writer
                   /\ current_gen' = o.current_gen
                   /\ uncompacted' = o.uncompacted
                   /\ pc' = "idle"
                   /\ last' = Call("open", "", None, Ok, 0, 0)
              ELSE /\ files' = fs
                   /\ index' = EmptyMap
                   /\ reader' = EmptyMap
                   /\ writer' = NewWriter(0)
                   /\ current_gen' = 0
                   /\ uncompacted' = 0
                   /\ pc' = "open_failed"
                   /\ last' = Call("open", "", None, o.res, 0, 0)
    /\ comp' = NoComp
    /\ index0' = EmptyMap
    /\ UNCHANGED <<engine, sled, model, prev, faults, marker, others, srv>>

Reopen == ReopenWithin(MaxGen)

\* ---------------------------------------------------------------- SledStore
SledSet(k, v) ==
    /\ engine = "sled"
    /\ sled' = [sled EXCEPT !.mem[k] = v]
    /\ last' = Call("set", k, v, Ok, 0, 0)
    /\ model' = [model EXCEPT ![k] = v]
    /\ prev' = [prev EXCEPT ![k] = model[k]]
    /\ srv' = Respond(srv, Ok)
    /\ UNCHANGED <<engine, pc, kvsVars, index0, faults, marker, others>>

\* The result of SledStore::get.
sled_get(db, key) == db.mem[key]

SledGet(k) ==
    /\ engine = "sled"
    /\ sled_get(sled, k) \in Values \cup {None}
    /\ srv' = Respond(srv, sled_get(sled, k))
    /\ UNCHANGED <<engine, pc, kvsVars, sled, last, model, prev, index0, faults,
                   marker, others>>

\* SledStore::remove: db.remove(key)?.ok_or(KeyNotFound)?; db.flush()?
SledRemoved(res, db) == [res |-> res, sled |-> db]

SledFlushed(mem) == [mem |-> mem, disk |-> mem]

sled_remove(db, key) ==
    IF db.mem[key] = None THEN SledRemoved(ErrKeyNotFound, db)
    ELSE SledRemoved(Ok, SledFlushed([db.mem EXCEPT ![key] = None]))

SledRemove(k) ==
    /\ engine = "sled"
    /\ LET r == sled_remove(sled, k)
       IN  /\ sled' = r.sled
           /\ last' = IF r.res = Ok THEN Call("remove", k, None, Ok, 0, 0) ELSE last
           /\ model' = IF r.res = Ok THEN [model EXCEPT ![k] = None] ELSE model
           /\ prev' = IF r.res = Ok THEN [prev EXCEPT ![k] = None] ELSE prev
           /\ srv' = Respond(srv, r.res)
    /\ UNCHANGED <<engine, pc, kvsVars, index0, faults, marker, others>>

\* sled's background flusher writes the dirty pages out.
SledFlusher ==
    /\ engine = "sled" /\ sled.disk # sled.mem
    /\ sled' = [sled EXCEPT !.disk = sled.mem]
    /\ UNCHANGED <<engine, pc, kvsVars, last, model, prev, index0, faults, marker, others, srv>>

\* ------------------------------------------------------------ specification
Next ==
    \/ \E k \in Keys, v \in Values : Set(k, v)
    \/ \E k \in Keys : Get(k)
    \/ \E k \in Keys : Remove(k)
    \/ CompactBegin
    \/ \E k \in Keys : CompactCopy(k)
    \/ CompactFlush
    \/ \E g \in 1..MaxGen : CompactDeregister(g)
    \/ CompactRemove
    \/ CompactEnd
    \/ Reopen
    \/ \E k \in Keys, v \in Values : SledSet(k, v)
    \/ \E k \in Keys : SledGet(k)
    \/ \E k \in Keys : SledRemove(k)
    \/ SledFlusher

Spec == Init /\ [][Next]_vars

\* The same engine followed one generation further, far enough for a store
\* object to compact twice.
NextLong ==
    \/ \E k \in Keys, v \in Values : SetWithin(k, v, MaxGenLong)
    \/ \E k \in Keys : Get(k)
    \/ \E k \in Keys : Remove(k)
    \/ CompactBegin
    \/ \E k \in Keys : CompactCopy(k)
    \/ CompactFlush
    \/ \E g \in 1..MaxGenLong : CompactDeregister(g)
    \/ CompactRemove
    \/ CompactEnd
    \/ ReopenWithin(MaxGenLong)
    \/ \E k \in Keys, v \in Values : SledSet(k, v)
    \/ \E k \in Keys : SledGet(k)
    \/ \E k \in Keys : SledRemove(k)
    \/ SledFlusher

SpecLong == Init /\ [][NextLong]_vars

\* ---------------------------------------------------------------- faults
\* What the code does when a system call fails.  Each action is one `?` of the
\* code taking its error branch.
Fault == faults < MaxFaults /\ faults' = faults + 1

\* The key and the value of the call a fault strikes.  The engine treats all
\* keys alike and all values alike, so one of each stands for the others.
FaultKeys == {"a"}
FaultValues == {"1"}

\* set: append_log_file fails in flush; the record stays in the writer's
\* buffer, pos has advanced, set returns the error before index.insert.
SetFlushErr(k, v) ==
    /\ engine = "kvs" /\ pc = "idle" /\ Fault
    /\ DiskSize(files) + Len(writer.buf) + Len(serialize(SetLog(k, v))) + 1 <= MaxDisk
    /\ LET wr == AppendNoFlush(writer, files, SetLog(k, v))
       IN  /\ writer' = wr.w
           /\ files' = wr.files
    /\ last' = Call("set", k, v, ErrIo, writer.gen, writer.pos)
    /\ index0' = index
    /\ UNCHANGED <<engine, pc, index, reader, current_gen, uncompacted, comp, sled,
                   model, prev, marker, others, srv>>

\* remove: append_log_file fails in flush, remove returns the error before
\* index.remove.
RemoveFlushErr(k) ==
    /\ engine = "kvs" /\ pc = "idle" /\ Fault
    /\ k \in DOMAIN index
    /\ DiskSize(files) + Len(writer.buf) + Len(serialize(RemoveLog(k))) + 1 <= MaxDisk
    /\ LET wr == AppendNoFlush(writer, files, RemoveLog(k))
       IN  /\ writer' = wr.w
           /\ files' = wr.files
    /\ last' = Call("remove", k, None, ErrIo, writer.gen, writer.pos)
    /\ index0' = index
    /\ UNCHANGED <<engine, pc, index, reader, current_gen, uncompacted, comp, sled,
                   model, prev, marker, others, srv>>

\* compact, line 206: create_log_file for the new active generation fails,
\* after current_gen was raised; created says whether the file came to be
\* before the failure (the writer's open failed, or the reader's).
CompactBeginErrNew(created) ==
    /\ pc = "compact" /\ Fault
    /\ current_gen' = current_gen + 2
    /\ files' = IF created THEN create_log_file(files, reader, current_gen + 2).files
                ELSE files
    /\ pc' = "idle"
    /\ last' = [last EXCEPT !.res = ErrIo]
    /\ UNCHANGED <<engine, index, reader, writer, uncompacted, comp, sled, model,
                   prev, index0, marker, others, srv>>

\* compact, line 209: create_log_file for the compaction target fails, the new
\* active writer being installed already.
CompactBeginErrTarget ==
    /\ pc = "compact" /\ Fault
    /\ LET c1 == create_log_file(DropWriter(writer, files), reader, current_gen + 2)
       IN  /\ writer' = c1.writer
           /\ files' = c1.files
           /\ reader' = c1.reader
    /\ current_gen' = current_gen + 2
    /\ pc' = "idle"
    /\ last' = [last EXCEPT !.res = ErrIo]
    /\ UNCHANGED <<engine, index, uncompacted, comp, sled, model, prev, index0, marker, others,
                   srv>>

\* compact, lines 216-220: a seek, read or write of the copy loop fails; the
\* compaction writer is dropped.
CompactCopyErr ==
    /\ pc = "copy" /\ comp.todo # {} /\ Fault
    /\ files' = DropWriter(comp.w, files)
    /\ pc' = "idle"
    /\ last' = [last EXCEPT !.res = ErrIo]
    /\ comp' = NoComp
    /\ UNCHANGED <<engine, index, reader, writer, current_gen, uncompacted, sled,
                   model, prev, index0, marker, others, srv>>

\* compact, line 222: the flush of the compaction writer fails; dropping the
\* writer tries once more, and flushed says whether that try got through.
CompactFlushErr(flushed) ==
    /\ pc = "copy" /\ comp.todo = {} /\ Fault
    /\ files' = IF flushed THEN DropWriter(comp.w, files) ELSE files
    /\ pc' = "idle"
    /\ last' = [last EXCEPT !.res = ErrIo]
    /\ comp' = NoComp
    /\ UNCHANGED <<engine, index, reader, writer, current_gen, uncompacted, sled,
                   model, prev, index0, marker, others, srv>>

\* compact, line 233: remove_file fails after the reader was deregistered.
CompactRemoveErr ==
    /\ pc = "remove" /\ comp.cur # 0 /\ Fault
    /\ pc' = "idle"
    /\ last' = [last EXCEPT !.res = ErrIo]
    /\ comp' = NoComp
    /\ UNCHANGED <<engine, files, index, reader, writer, current_gen, uncompacted, sled,
                   model, prev, index0, marker, others, srv>>

NextFault ==
    \/ Next
    \/ \E k \in FaultKeys, v \in FaultValues : SetFlushErr(k, v)
    \/ \E k \in FaultKeys : RemoveFlushErr(k)
    \/ \E created \in BOOLEAN : CompactBeginErrNew(created)
    \/ CompactBeginErrTarget
    \/ CompactCopyErr
    \/ \E flushed \in BOOLEAN : CompactFlushErr(flushed)
    \/ CompactRemoveErr

\* The engine in an environment whose system calls may fail.
SpecFault == Init /\ [][NextFault]_vars

\* The process is killed while the flush of a set is writing its record: the
\* first n bytes of the JSON text reached the file, the rest and the memory of
\* the process are lost.
CrashDuringAppend(k, v, n) ==
    /\ engine = "kvs" /\ pc = "idle" /\ Fault
    /\ DiskSize(files) + Len(serialize(SetLog(k, v))) + 1 <= MaxDisk
    /\ n \in 1..(Len(serialize(SetLog(k, v))) - 1)
    /\ files' = FileAppend(files, writer.gen, SubSeq(serialize(SetLog(k, v)), 1, n))
    /\ pc' = "crashed"
    /\ last' = Call("set", k, v, Running, writer.gen, writer.pos)
    /\ UNCHANGED <<engine, index, reader, writer, current_gen, uncompacted, comp,
                   sled, model, prev, index0, marker, others, srv>>

\* The process is killed inside KvStore::compact: what the compaction writer
\* holds in its buffer is lost with the store object, the directory stays as
\* it is.  The index is kept as history: compact does not change it, so it is
\* the index the store had when the compaction started.
CompactCrash ==
    /\ pc \in {"compact", "copy", "remove"}
    /\ pc' = "crashed"
    /\ last' = [last EXCEPT !.res = Running]
    /\ comp' = NoComp
    /\ reader' = EmptyMap
    /\ writer' = NewWriter(0)
    /\ current_gen' = 0
    /\ uncompacted' = 0
    /\ UNCHANGED <<engine, files, index, sled, model, prev, index0, faults, marker, others,
                   srv>>

\* The engine treats all values alike, so one value stands for the others.
NextCrash ==
    \/ \E k \in Keys, v \in FaultValues : SetWithin(k, v, MaxGenLong)
    \/ \E k \in Keys : Get(k)
    \/ \E k \in Keys : Remove(k)
    \/ CompactBegin
    \/ \E k \in Keys : CompactCopy(k)
    \/ CompactFlush
    \/ \E g \in 1..MaxGenLong : CompactDeregister(g)
    \/ CompactRemove
    \/ CompactEnd
    \/ ReopenWithin(MaxGenLong)
    \/ CompactCrash

\* The engine on a machine that may stop in the middle of a compaction.
SpecCrash == Init /\ [][NextCrash]_vars

\* ------------------------------------------------- a directory others use
\* Entries that other programs may leave in the directory: the files
\* 1.log.log, 01.log, +2.log, x.log and .log, and a directory named 9.log.
ForeignEntries ==
    {Entry(Name(<<"1">>, 2), TRUE), Entry(Name(<<"0", "1">>, 1), TRUE),
     Entry(Name(<<"+", "2">>, 1), TRUE), Entry(Name(<<"x">>, 1), TRUE),
     Entry(Name(<<>>, 1), TRUE), Entry(Name(<<"9">>, 1), FALSE)}

\* Another program creates an entry in the directory while no call runs.
ForeignEntry(e) ==
    /\ engine = "kvs" /\ pc \in {"idle", "open_failed"}
    /\ Cardinality(others) < MaxForeign /\ e \notin others
    /\ others' = others \cup {e}
    /\ UNCHANGED <<engine, pc, files, index, reader, writer, current_gen, uncompacted,
                   comp, sled, last, model, prev, index0, faults, marker, srv>>

\* The engine treats all keys alike and all values alike, so one of each
\* stands for the others.
NextDir ==
    \/ \E k \in FaultKeys, v \in FaultValues : Set(k, v)
    \/ \E k \in FaultKeys : Get(k)
    \/ \E k \in FaultKeys : Remove(k)
    \/ CompactBegin
    \/ \E k \in FaultKeys : CompactCopy(k)
    \/ CompactFlush
    \/ \E g \in 1..MaxGen : CompactDeregister(g)
    \/ CompactRemove
    \/ CompactEnd
    \/ Reopen
    \/ \E e \in ForeignEntries : ForeignEntry(e)

\* The engine on a directory that other programs put entries into.
SpecDir == Init /\ [][NextDir]_vars

NextTorn ==
    \/ Next
    \/ \E k \in FaultKeys, v \in FaultValues, n \in 1..2 : CrashDuringAppend(k, v, n)

\* The engine on a machine that may stop in the middle of a write.
SpecTorn == Init /\ [][NextTorn]_vars

\* The record slot of an indexed key is overwritten from outside the engine
\* (it takes no file lock) by a Remove record of the key, padded with
\* whitespace to the length of the slot.
Padded(rec, n) == rec \o [i \in 1..(n - Len(rec)) |-> NL]

Overwrite(bytes, pos, rec) ==
    [i \in 1..Len(bytes) |->
        IF i > pos /\ i <= pos + Len(rec) THEN rec[i - pos] ELSE bytes[i]]

Corrupt(k) ==
    /\ engine = "kvs" /\ pc = "idle" /\ Fault
    /\ k \in DOMAIN index /\ index[k].gen \in DOMAIN files
    /\ files' = [files EXCEPT ![index[k].gen] =
                    Overwrite(@, index[k].pos,
                              Padded(serialize(RemoveLog(k)),
                                     Len(read_line(@, index[k].pos))))]
    /\ UNCHANGED <<engine, pc, index, reader, writer, current_gen, uncompacted,
                   comp, sled, last, model, prev, index0, marker, others, srv>>

NextCorrupt ==
    \/ Next
    \/ \E k \in FaultKeys : Corrupt(k)

\* The engine on a directory another process may write to.
SpecCorrupt == Init /\ [][NextCorrupt]_vars

\* --------------------------------------------------------------- kvs-server
\* A check that lets every flavor through.
CheckNothing(m, target_engine) == "pass"

\* check_engine and current_engine: a missing engine file lets any flavor
\* through; a recorded flavor lets only itself through, another one exits.
check_engine(m, target_engine) ==
    IF m = "none" \/ m = target_engine THEN "pass" ELSE "exit"

\* main, line 73: a startup with --engine f reads the marker.
StartCheck(f) ==
    /\ srv.pc \in {"down", "exited", "dead"}
    /\ srv' = [srv EXCEPT !.flavor = f,
                          !.pc = IF check_engine(marker, f) = "exit" THEN "exited"
                                 ELSE "checked"]
    /\ UNCHANGED <<engine, pc, kvsVars, sled, last, model, prev, index0, faults,
                   marker, others>>

\* main, line 82: fs::write of the flavor into the engine file.
StartWrite ==
    /\ srv.pc = "checked"
    /\ marker' = srv.flavor
    /\ srv' = [srv EXCEPT !.pc = "written"]
    /\ UNCHANGED <<engine, pc, kvsVars, sled, last, model, prev, index0, faults, others>>

\* main, line 88: KvStore::open on the working directory.
StartOpenKvs ==
    /\ srv.pc = "written" /\ srv.flavor = "kvs"
    /\ LET o == OpenDir(files, Foreign(marker, others))
       IN  /\ o.ok /\ o.current_gen <= MaxGen
           /\ files' = o.files
           /\ index' = o.index
           /\ reader' = o.reader
           /\ writer' = o.writer
           /\ current_gen' = o.current_gen
           /\ uncompacted' = o.uncompacted
    /\ engine' = "kvs"
    /\ pc' = "idle"
    /\ comp' = NoComp
    /\ last' = Call("open", "", None, Ok, 0, 0)
    /\ index0' = EmptyMap
    /\ srv' = [srv EXCEPT !.pc = "opened", !.shadow = model]
    /\ UNCHANGED <<sled, model, prev, faults, marker, others>>

\* main, line 89: sled::open; what the killed process had not flushed is gone.
StartOpenSled ==
    /\ srv.pc = "written" /\ srv.flavor = "sled"
    /\ engine' = "sled"
    /\ pc' = "idle"
    /\ sled' = [mem |-> sled.disk, disk |-> sled.disk]
    /\ model' = sled.disk
    /\ prev' = NoneMap
    /\ last' = Call("open", "", None, Ok, 0, 0)
    /\ srv' = [srv EXCEPT !.pc = "opened", !.shadow = sled.disk]
    /\ UNCHANGED <<kvsVars, index0, faults, marker, others>>

\* KvsServer::run, line 33: TcpListener::bind.
StartBind ==
    /\ srv.pc = "opened"
    /\ srv' = [srv EXCEPT !.pc = "listening"]
    /\ UNCHANGED <<engine, pc, kvsVars, sled, last, model, prev, index0, faults,
                   marker, others>>

\* The process is killed while it waits for a connection.
ServerStop ==
    /\ srv.pc = "listening"
    /\ srv' = [srv EXCEPT !.pc = "down", !.conn = "none", !.sent = <<>>,
                          !.resp = <<>>, !.exp = <<>>, !.nread = 0, !.cli = NoCli]
    /\ UNCHANGED <<engine, pc, kvsVars, sled, last, model, prev, index0, faults,
                   marker, others>>

\* run, lines 34-37: the next connection is accepted and serve starts on it.
Accept ==
    /\ srv.pc = "listening" /\ srv.total < MaxReqs
    /\ srv' = [srv EXCEPT !.pc = "serving", !.conn = "open", !.reqs = <<>>,
                          !.cur = NoReq, !.sent = <<>>, !.resp = <<>>,
                          !.exp = <<>>, !.nread = 0, !.cli = NoCli]
    /\ UNCHANGED <<engine, pc, kvsVars, sled, last, model, prev, index0, faults,
                   marker, others>>

\* What an in-memory map answers to a request, and what the request makes of it.
Expected(req, map) ==
    CASE req.op = "get" ->
            Frame("Ok", IF map[req.key] = None THEN "null" ELSE map[req.key])
      [] req.op = "set" -> Frame("Ok", "null")
      [] req.op = "rm" ->
            IF map[req.key] = None THEN Frame("Err", Display(ErrKeyNotFound))
            ELSE Frame("Ok", "null")

Applied(req, map) ==
    CASE req.op = "get" -> map
      [] req.op = "set" -> [map EXCEPT ![req.key] = req.value]
      [] req.op = "rm" -> [map EXCEPT ![req.key] = None]

\* The client writes one more request frame to the connection.
ClientSend(req) ==
    /\ srv.conn = "open" /\ srv.pc \in {"serving", "call"}
    /\ srv.total < MaxReqs /\ Len(srv.reqs) < MaxPending
    /\ srv' = [srv EXCEPT !.reqs = Append(@, req), !.sent = Append(@, req),
                          !.exp = Append(@, Expected(req, srv.shadow)),
                          !.shadow = Applied(req, @), !.total = @ + 1]
    /\ UNCHANGED <<engine, pc, kvsVars, sled, last, model, prev, index0, faults,
                   marker, others>>

\* The client writes bytes that are no Request, and nothing after them.
ClientSendBad ==
    /\ srv.conn = "open" /\ srv.pc \in {"serving", "call"}
    /\ srv.total < MaxReqs /\ Len(srv.reqs) < MaxPending
    /\ srv' = [srv EXCEPT !.reqs = Append(@, BadReq), !.conn = "garbled",
                          !.total = @ + 1]
    /\ UNCHANGED <<engine, pc, kvsVars, sled, last, model, prev, index0, faults,
                   marker, others>>

\* The client closes its side of the connection.
ClientClose ==
    /\ srv.conn = "open" /\ srv.pc \in {"serving", "call"}
    /\ srv' = [srv EXCEPT !.conn = "eof"]
    /\ UNCHANGED <<engine, pc, kvsVars, sled, last, model, prev, index0, faults,
                   marker, others>>

\* A serve whose decoding error ends the process.
ServeReadFatal ==
    /\ srv.pc = "serving" /\ srv.reqs # <<>>
    /\ srv' = IF Head(srv.reqs) = BadReq
              THEN [srv EXCEPT !.pc = "dead", !.conn = "fault", !.reqs = <<>>]
              ELSE [srv EXCEPT !.pc = "call", !.cur = Head(srv.reqs),
                               !.reqs = Tail(@)]
    /\ UNCHANGED <<engine, pc, kvsVars, sled, last, model, prev, index0, faults,
                   marker, others>>

\* serve, lines 62-65: the request iterator yields the next frame; `req?`
\* returns from serve on a frame that does not decode.
ServeRead ==
    /\ srv.pc = "serving" /\ srv.reqs # <<>>
    /\ srv' = IF Head(srv.reqs) = BadReq
              THEN [srv EXCEPT !.pc = "listening", !.conn = "fault", !.reqs = <<>>]
              ELSE [srv EXCEPT !.pc = "call", !.cur = Head(srv.reqs),
                               !.reqs = Tail(@)]
    /\ UNCHANGED <<engine, pc, kvsVars, sled, last, model, prev, index0, faults,
                   marker, others>>

\* serve, lines 62 and 81: the iterator ends at end of input, serve returns.
ServeEof ==
    /\ srv.pc = "serving" /\ srv.reqs = <<>> /\ srv.conn = "eof"
    /\ srv' = [srv EXCEPT !.pc = "listening", !.conn = "closed"]
    /\ UNCHANGED <<engine, pc, kvsVars, sled, last, model, prev, index0, faults,
                   marker, others>>

\* serve, lines 66-77: the engine call of the request in hand; the response
\* is sent when the call returns.
ServeGet(k) ==
    /\ srv.pc = "call" /\ srv.cur = GetReq(k)
    /\ Get(k) \/ SledGet(k)

ServeSet(k, v) ==
    /\ srv.pc = "call" /\ srv.cur = SetReq(k, v)
    /\ Set(k, v) \/ SledSet(k, v)

ServeRemove(k) ==
    /\ srv.pc = "call" /\ srv.cur = RemoveReq(k)
    /\ Remove(k) \/ SledRemove(k)

\* --------------------------------------------------------------- kvs-client
\* KvsClient::get, set and remove: the frame is decoded as a GetResponse; Ok
\* gives the value of a get and () otherwise, Err(err) gives Err(err.into()),
\* which From<String> makes KvsError::Other(err).
ClientOk(val) == [ok |-> TRUE, val |-> val, variant |-> "", msg |-> ""]
ClientErr(variant, msg) == [ok |-> FALSE, val |-> "", variant |-> variant, msg |-> msg]

FromString(value) == ClientErr("Other", value)

client_call(req, frame) ==
    IF frame.tag = "Ok"
    THEN ClientOk(IF req.op = "get" THEN frame.body ELSE "()")
    ELSE FromString(frame.body)

\* main of kvs-client: what it prints to standard output and its exit status.
Cli(stdout, status) == [stdout |-> stdout, status |-> status]

client_main(req, r) ==
    CASE req.op = "set" -> IF r.ok THEN Cli("", 0) ELSE Cli("", 1)
      [] req.op = "get" ->
            IF ~r.ok THEN Cli("", 1)
            ELSE IF r.val = "null" THEN Cli("Key not found", 0)
            ELSE Cli(r.val, 0)
      [] req.op = "rm" ->
            IF r.ok THEN Cli("", 0)
            ELSE IF r.variant = "KeyNotFound" THEN Cli("Key not found", 1)
            ELSE Cli("", 1)

\* The client reads the next response frame and ends as kvs-client does.
ClientRecv ==
    /\ srv.nread < Len(srv.resp)
    /\ srv' = [srv EXCEPT !.nread = @ + 1,
                          !.cli = client_main(srv.sent[srv.nread + 1],
                                      client_call(srv.sent[srv.nread + 1],
                                                  srv.resp[srv.nread + 1]))]
    /\ UNCHANGED <<engine, pc, kvsVars, sled, last, model, prev, index0, faults,
                   marker, others>>

\* A working directory in which no server has run yet.
InitServer ==
    /\ engine = "none"
    /\ pc = "idle"
    /\ files = EmptyMap
    /\ index = EmptyMap
    /\ reader = EmptyMap
    /\ writer = NewWriter(0)
    /\ current_gen = 0
    /\ uncompacted = 0
    /\ comp = NoComp
    /\ sled = [mem |-> NoneMap, disk |-> NoneMap]
    /\ last = Call("open", "", None, Ok, 0, 0)
    /\ model = NoneMap
    /\ prev = NoneMap
    /\ index0 = EmptyMap
    /\ faults = 0
    /\ marker = "none"
    /\ others = {}
    /\ srv = [NoServer EXCEPT !.pc = "down"]

NextServer ==
    \/ \E f \in {"kvs", "sled"} : StartCheck(f)
    \/ StartWrite
    \/ StartOpenKvs
    \/ StartOpenSled
    \/ StartBind
    \/ ServerStop
    \/ Accept
    \/ \E req \in Requests : ClientSend(req)
    \/ ClientSendBad
    \/ ClientClose
    \/ ClientRecv
    \/ ServeRead
    \/ ServeEof
    \/ \E k \in ClientKeys : ServeGet(k)
    \/ \E k \in ClientKeys, v \in Values : ServeSet(k, v)
    \/ \E k \in ClientKeys : ServeRemove(k)
    \/ CompactBegin
    \/ \E k \in Keys : CompactCopy(k)
    \/ CompactFlush
    \/ \E g \in 1..MaxGen : CompactDeregister(g)
    \/ CompactRemove
    \/ CompactEnd
    \/ SledFlusher

\* kvs-server started and restarted in one directory, serving a client.
SpecServer == InitServer /\ [][NextServer]_vars

\* run, line 41: incoming() yields an error instead of a connection; the error
\* is logged and the loop takes its next turn.
AcceptErr ==
    /\ srv.pc = "listening" /\ Fault
    /\ UNCHANGED <<engine, pc, kvsVars, sled, last, model, prev, index0, marker,
                   others, srv>>

\* send_resp!, lines 56-57: the frame went into the connection's BufWriter and
\* the write or the flush fails; the `?` returns from serve, the frame never
\* reaches the client and the connection is dropped with what it still held.
ServeWriteErr ==
    /\ srv.pc = "serving" /\ srv.nread < Len(srv.resp) /\ Fault
    /\ srv' = [srv EXCEPT !.pc = "listening", !.conn = "fault", !.reqs = <<>>,
                          !.resp = SubSeq(@, 1, Len(@) - 1)]
    /\ UNCHANGED <<engine, pc, kvsVars, sled, last, model, prev, index0, marker,
                   others>>

NextServerFault ==
    \/ NextServer
    \/ AcceptErr
    \/ ServeWriteErr

\* kvs-server on a network whose accepts and writes may fail.
SpecServerFault == InitServer /\ [][NextServerFault]_vars

\* ================================================================== claims
Quiescent == engine = "kvs" /\ pc = "idle"
Errors == {ErrSerde, ErrIo}

\* What get returns for every key of a store, compared with the history.
AgreesWithModel(o) ==
    /\ o.ok
    /\ \A k \in Keys : get(o.index, o.reader, o.files, k).res = model[k]

\* C1: after any sequence of set and remove calls on a fresh store, with or
\* without compactions, closing the store and opening the directory again
\* (replaying the log files in ascending generation order) gives a store in
\* which get of every key returns the value of the last Set of the key not
\* followed by a Remove, and absence otherwise.
C1_ReopenAgreesWithModel ==
    (engine = "kvs" /\ pc \in {"idle", "panicked"})
        => AgreesWithModel(open(DropWriter(writer, files)))

\* A store reopened after a compaction, with one key set and one removed.
C1_Witness ==
    /\ Quiescent /\ last.op = "open"
    /\ 2 \in DOMAIN files /\ 3 \in DOMAIN files /\ current_gen = 4
    /\ model["a"] \in Values /\ model["b"] = None /\ prev["a"] \in Values
    /\ get(index, reader, files, "a").res = model["a"]
    /\ get(index, reader, files, "b").res = None

\* C2: a get(k) that follows a successful set(k, v) returns Some(v), also when
\* that set ran compaction before it returned.
C2_GetAfterSet ==
    (Quiescent /\ last.op = "set" /\ last.res = Ok)
        => get(index, reader, files, last.key).res = last.value

\* C3: in every state, during compaction too, every generation an index entry
\* names has its log file on disk and a reader in the reader map.
C3_IndexTargetsExist ==
    engine = "kvs" =>
        \A k \in DOMAIN index :
            index[k].gen \in DOMAIN files /\ index[k].gen \in DOMAIN reader

\* The bytes an index entry spans are a well-formed Set record of the key.
SpansSetOf(bytes, e, k) ==
    /\ e.pos + e.len <= Len(bytes)
    /\ deserialize(SubSeq(bytes, e.pos + 1, e.pos + e.len)).kind = "ok"
    /\ deserialize(SubSeq(bytes, e.pos + 1, e.pos + e.len)).log = SetLog(k,
           deserialize(SubSeq(bytes, e.pos + 1, e.pos + e.len)).log.value)

\* C4 (invariant I1): on a quiescent engine, for every key k of the index the
\* bytes [offset, offset + length) of its generation's file are a well-formed
\* Set record whose key is k.
C4_IndexedBytesAreSetRecords ==
    Quiescent =>
        \A k \in DOMAIN index :
            /\ index[k].gen \in DOMAIN files
            /\ SpansSetOf(FileBytes(files, index[k].gen), index[k], k)

\* C5: remove of a key the store does not hold returns the key-not-found
\* error, appends nothing and changes nothing; after a successful remove(k)
\* get(k) returns absence; the native engine and the sled adapter agree.
C5_RemoveSemantics ==
    \A k \in Keys :
        /\ (Quiescent /\ model[k] = None)
               => remove(index, writer, files, k)
                      = Removed(ErrKeyNotFound, index, writer, files)
        /\ (Quiescent /\ model[k] # None)
               => remove(index, writer, files, k).res = Ok
        /\ (Quiescent /\ last.op = "remove" /\ last.key = k)
               => get(index, reader, files, k).res = None
        /\ (engine = "sled" /\ model[k] = None)
               => sled_remove(sled, k) = SledRemoved(ErrKeyNotFound, sled)
        /\ (engine = "sled" /\ model[k] # None)
               => sled_remove(sled, k).res = Ok
        /\ (engine = "sled" /\ last.op = "remove" /\ last.key = k)
               => sled_get(sled, k) = None

\* A key was set and then removed, so that it is absent again.
C5_Witness ==
    /\ Quiescent /\ last.op = "remove" /\ last.res = Ok
    /\ model[last.key] = None /\ last.pos > 0
    /\ remove(index, writer, files, last.key).res = ErrKeyNotFound

\* C6: after set(k, v1) and then set(k, v2) with v1 # v2, and whatever happens
\* to other keys and whatever compactions run, a get(k) returns v2 or returns
\* an error; it never returns v1.
C6_NoStaleRead ==
    \A k \in Keys :
        (Quiescent /\ model[k] \in Values /\ prev[k] \in Values /\ prev[k] # model[k])
            => get(index, reader, files, k).res \in {model[k]} \cup Errors

\* C7: when set or remove returns an error, whichever step of the call
\* failed (a step of the compaction that set runs included), the index is what
\* it was when the call started.
C7_ErrorLeavesIndex ==
    (Quiescent /\ last.op \in {"set", "remove"} /\ last.res = ErrIo)
        => index = index0

\* The encoded record of the last successful set or remove.
LastLine ==
    serialize(IF last.op = "set" THEN SetLog(last.key, last.value)
              ELSE RemoveLog(last.key)) \o <<NL>>

Occurs(bytes, line) ==
    \E o \in 0..Len(bytes) :
        o + Len(line) <= Len(bytes) /\ SubSeq(bytes, o + 1, o + Len(line)) = line

\* C8 (invariant I5): when set or remove has returned success, nothing of the
\* record is left in the writer's buffer and the whole record is in an
\* operating-system file: where the writer appended it, in the file that was
\* active then, or, when the compaction of that very set has deleted that file
\* since, in the compaction's target file.
C8_FlushedBeforeSuccess ==
    (Quiescent /\ last.op \in {"set", "remove"} /\ last.res = Ok)
        => /\ writer.buf = <<>>
           /\ IF last.gen \in DOMAIN files
              THEN /\ last.pos + Len(LastLine) <= Len(files[last.gen])
                   /\ SubSeq(files[last.gen], last.pos + 1, last.pos + Len(LastLine))
                          = LastLine
              ELSE /\ current_gen - 1 \in DOMAIN files
                   /\ Occurs(files[current_gen - 1], LastLine)

\* A set that succeeded after an earlier call had failed in flush, and a set
\* whose compaction moved its record.
C8_Witness ==
    /\ Quiescent /\ last.op = "set" /\ last.res = Ok
    /\ faults = 1 /\ last.pos > 0
    /\ last.gen \in DOMAIN files /\ Len(files[last.gen]) > last.pos + Len(LastLine) - 1

\* What get finds decoded at an index entry.
DecodedAt(e) == deserialize(read_line(FileBytes(files, e.gen), e.pos))

\* C9: when the record decoded at the index entry of k is a Remove, get(k)
\* surfaces an error: it returns neither a value nor absence.
C9_RemoveInSlotIsError ==
    \A k \in DOMAIN index :
        (Quiescent /\ index[k].gen \in DOMAIN reader
                   /\ DecodedAt(index[k]).kind = "ok"
                   /\ DecodedAt(index[k]).log.type = "Remove")
            => get(index, reader, files, k).res \notin Values \cup {None}

\* C10: opening a directory whose newest log file ends in a cut-off record
\* succeeds, and the store holds what the complete records before the cut say.
C10_TruncatedTailTolerated ==
    engine = "kvs" =>
        /\ pc # "open_failed"
        /\ (Quiescent /\ last.op = "open" /\ faults > 0)
               => \A k \in Keys : get(index, reader, files, k).res = model[k]

\* The set that returned last ran a compaction: its record went to a file the
\* writer is no longer on, and nothing was appended since.
JustCompacted ==
    Quiescent /\ last.op = "set" /\ last.res = Ok /\ last.gen # writer.gen

\* The bytes of the live records: one Set record and its newline per key that
\* has a value.
RECURSIVE LiveBytes(_)
LiveBytes(S) ==
    IF S = {} THEN 0
    ELSE LET k == CHOOSE x \in S : TRUE
         IN  (IF model[k] = None THEN 0
              ELSE Len(serialize(SetLog(k, model[k]))) + 1) + LiveBytes(S \ {k})

\* C11: after a successful compaction with target C and new active generation
\* N = C + 1 the directory holds exactly C.log and N.log, the uncompacted
\* counter is 0, and the bytes on disk are at most the live records plus the
\* active file.
C11_AfterCompaction ==
    JustCompacted =>
        /\ DOMAIN files = {current_gen - 1, current_gen}
        /\ uncompacted = 0
        /\ DiskSize(files) <= LiveBytes(Keys) + Len(files[current_gen])

\* A compaction that kept two live keys and dropped superseded records.
C11_Witness ==
    /\ JustCompacted
    /\ model["a"] \in Values /\ model["b"] \in Values
    /\ DiskSize(files) = 8

MaxOf(S) == CHOOSE x \in S : \A y \in S : y <= x

\* The one active generation: the writer is on current_gen's file, which is
\* the highest generation of the directory.
OneActiveGeneration ==
    (engine = "kvs" /\ pc \notin {"crashed", "open_failed"})
        => /\ writer.gen = current_gen
           /\ current_gen \in DOMAIN files
           /\ \A g \in DOMAIN files : g <= current_gen

\* How a step may move the active generation and where it may append.
GenerationStep ==
    /\ current_gen' >= current_gen
    /\ (/\ pc \in {"idle", "panicked"} /\ pc' = "idle"
        /\ \/ current_gen' # current_gen
           \/ last'.op = "open" /\ last.op # "open")
           => current_gen' = MaxOf(DOMAIN files) + 1
    /\ (pc = "compact" /\ pc' = "copy") => current_gen' = current_gen + 2
    /\ (pc = "idle" /\ DOMAIN files' = DOMAIN files /\ files' # files)
           => /\ \A g \in DOMAIN files \ {current_gen} : files'[g] = files[g]
              /\ Len(files'[current_gen]) > Len(files[current_gen])

\* C12: over open, set, remove, compaction and reopen there is one active
\* generation, higher than every other generation of the directory: 1 on an
\* empty directory, the highest generation plus one on open, plus two on
\* compaction; it never decreases, and set and remove append to its file only.
C12_OneActiveGeneration ==
    /\ engine = "kvs" => current_gen = 1
    /\ []OneActiveGeneration
    /\ [][GenerationStep]_vars

\* A remove appended to generation 4, the store having compacted (to 2 and 3)
\* and been reopened.
C12_Witness ==
    /\ Quiescent /\ DOMAIN files = {2, 3, 4} /\ current_gen = 4
    /\ last.op = "remove" /\ last.res = Ok /\ last.gen = 4

\* The requests of the connection that the server has taken up and is not
\* executing any more.
Served == Len(srv.sent) - Len(srv.reqs) - (IF srv.pc = "call" THEN 1 ELSE 0)

\* C13: on one connection the server sends exactly one response frame per
\* request frame, in the order of the requests, and the response to request i
\* is what a store that has applied requests 1..i-1 answers.
C13_OneResponsePerRequest ==
    (srv.conn \in {"open", "eof", "closed"})
        => /\ Len(srv.resp) = Served
           /\ \A i \in 1..Len(srv.resp) : srv.resp[i] = srv.exp[i]

\* The key the request in hand names is absent from the engine.
CurAbsent ==
    \/ engine = "kvs" /\ srv.cur.key \notin DOMAIN index
    \/ engine = "sled" /\ sled.mem[srv.cur.key] = None

\* The engine returns an error to the request in hand (a remove of an absent
\* key): the server sends the Err frame with the message and keeps the
\* connection and what is unread on it.
ErrIsAnswered ==
    (srv.pc = "call" /\ srv.cur.op = "rm" /\ CurAbsent /\ srv'.pc # "call")
        => /\ srv'.pc = "serving"
           /\ srv'.resp = Append(srv.resp, Frame("Err", "Key not found"))
           /\ srv'.conn = srv.conn
           /\ srv'.reqs = srv.reqs

\* serve returns only on a frame that does not decode or at the end of input.
ReturnsOnFault ==
    (srv.pc \in {"serving", "call"} /\ srv'.pc = "listening")
        => \/ srv.reqs # <<>> /\ Head(srv.reqs) = BadReq /\ srv'.conn = "fault"
           \/ srv.reqs = <<>> /\ srv.conn = "eof"

\* C14: when the engine returns an error for a request the server sends an
\* Err frame with the stringified message and goes on serving the connection;
\* only a transport or framing fault ends the connection.
C14_ErrFrameThenContinue == [][ErrIsAnswered /\ ReturnsOnFault]_vars

\* An Err frame followed by the answer to the next request of the connection.
C14_Witness ==
    \E i \in 1..(Len(srv.resp) - 1) :
        /\ srv.resp[i] = Frame("Err", "Key not found")
        /\ srv.resp[i + 1].tag = "Ok"
        /\ srv.sent[i + 1].op = "set"

\* C15: when the server answers the client's rm with the key-not-found error
\* the client prints `Key not found` to standard output and exits with
\* status 1.
C15_ClientKeyNotFound ==
    (/\ srv.nread > 0
     /\ srv.sent[srv.nread].op = "rm"
     /\ srv.resp[srv.nread] = Frame("Err", Display(ErrKeyNotFound)))
        => srv.cli = Cli("Key not found", 1)

\* A startup that has passed the check runs the recorded flavor; an engine is
\* open and the socket bound only with the marker written.
MarkerGuards ==
    /\ (srv.pc \in {"checked", "written"} /\ marker # "none") => srv.flavor = marker
    /\ srv.pc \in {"opened", "listening", "serving", "call", "dead"}
           => marker = srv.flavor /\ engine = srv.flavor

\* The recorded flavor never changes, and a refused startup touches nothing.
MarkerStep ==
    /\ marker # "none" => marker' = marker
    /\ (srv'.pc = "exited" /\ srv.pc # "exited")
           => /\ srv'.flavor # marker
              /\ UNCHANGED <<marker, others, engine, pc, kvsVars, sled>>
    /\ (srv'.pc = "opened" /\ srv.pc # "opened") => marker = srv.flavor

\* C16: over every sequence of server startups in one directory the marker is
\* read before the engine is constructed and written before the socket is
\* bound; once it records flavor X a startup with another flavor exits before
\* rewriting the marker, opening an engine or binding, and the recorded
\* flavor never changes.
C16_MarkerNeverChanges == []MarkerGuards /\ [][MarkerStep]_vars

\* A startup with --engine sled refused in a directory that a kvs server has
\* written records to.
C16_Witness ==
    /\ srv.pc = "exited" /\ srv.flavor = "sled" /\ marker = "kvs"
    /\ engine = "kvs" /\ DiskSize(files) > 0

\* Compaction has written and flushed its target file, generation
\* current_gen - 1, and is deleting the files below it or has returned.
Compacted == (engine = "kvs" /\ pc = "remove") \/ JustCompacted

\* C17: compaction replaces every index entry with its location in the target
\* file C, (C, new_offset, new_length), before it deletes the old generation
\* files, so that the index is valid once the files are gone.
C17_IndexRewrittenBeforeDelete ==
    Compacted =>
        \A k \in DOMAIN index :
            /\ index[k].gen = current_gen - 1
            /\ SpansSetOf(FileBytes(files, current_gen - 1), index[k], k)

\* The lines of a file from offset off on, each with its newline.
RECURSIVE Lines(_, _)
Lines(bytes, off) ==
    IF off >= Len(bytes) THEN <<>>
    ELSE <<SubSeq(bytes, off + 1, LineEnd(bytes, off))>>
             \o Lines(bytes, LineEnd(bytes, off))

\* C18: when compaction has written its target file C.log, the file holds
\* exactly one complete Set record for every key of the index, carrying the
\* key's current value, and nothing else: no Remove record, no superseded
\* record, no duplicate.
C18_TargetHoldsLiveRecords ==
    Compacted =>
        LET ls == Lines(FileBytes(files, current_gen - 1), 0)
        IN  /\ Len(ls) = Cardinality(DOMAIN index)
            /\ \A k \in DOMAIN index :
                   \E i \in 1..Len(ls) :
                       ls[i] = serialize(SetLog(k, model[k])) \o <<NL>>

\* A compaction about to delete files that hold a Remove record and
\* superseded Set records of the one live key.
C18_Witness ==
    /\ engine = "kvs" /\ pc = "remove" /\ comp.rm # {}
    /\ DOMAIN index = {"a"}
    /\ \E g \in comp.rm :
           Occurs(FileBytes(files, g), serialize(RemoveLog("a")) \o <<NL>>)
    /\ Len(FileBytes(files, current_gen - 1)) = 4

\* C19: the length of every index entry counts the encoded record and its one
\* trailing newline, whether a live set made the entry or replay did; so the
\* entries of a reopened store have the lengths the original sets recorded.
C19_LengthCountsNewline ==
    Quiescent =>
        \A k \in DOMAIN index :
            index[k].len = Len(serialize(SetLog(k, model[k]))) + 1

\* The lines of all log files, in ascending order of generation.
RECURSIVE AllLines(_, _, _)
AllLines(fs, gen_list, i) ==
    IF i > Len(gen_list) THEN <<>>
    ELSE Lines(fs[gen_list[i]], 0) \o AllLines(fs, gen_list, i + 1)

\* Line i is a Set record whose key a later record sets again or removes.
SupersededAt(ls, i) ==
    /\ deserialize(ls[i]).kind = "ok"
    /\ deserialize(ls[i]).log.type = "Set"
    /\ \E j \in (i + 1)..Len(ls) :
           /\ deserialize(ls[j]).kind = "ok"
           /\ deserialize(ls[j]).log.key = deserialize(ls[i]).log.key

\* The sum over the superseded Set records from line i on of the record's
\* bytes plus nl for its newline.
RECURSIVE SupersededBytes(_, _, _)
SupersededBytes(ls, i, nl) ==
    IF i > Len(ls) THEN 0
    ELSE (IF SupersededAt(ls, i) THEN Len(ls[i]) - 1 + nl ELSE 0)
             + SupersededBytes(ls, i + 1, nl)

\* C20: in every state of an open engine the uncompacted counter is the sum of
\* the length fields of the Set records superseded since the last compaction,
\* by a later set of the key or by a remove of it.  The files hold exactly the
\* records written since the last compaction and its output; a length field
\* is the record with its newline where a live set made it and without where
\* replay made it, so the counter lies between the two sums.
C20_UncompactedIsSupersededSum ==
    Quiescent =>
        LET ls == AllLines(files, get_sorted_gen_list(read_dir(files, {})), 1)
        IN  /\ SupersededBytes(ls, 1, 0) <= uncompacted
            /\ uncompacted <= SupersededBytes(ls, 1, 1)

\* The process stopped inside a compaction.
CrashedInCompaction == engine = "kvs" /\ pc = "crashed" /\ last.op = "set"

\* What get(k) returned just before the compaction started: the value of the
\* key's last Set when the index held the key, absence otherwise.
BeforeCompaction(k) == IF k \in DOMAIN index THEN model[k] ELSE None

\* C26: when the process stops anywhere inside compaction, opening the
\* directory again succeeds and get returns for every key what it returned
\* just before the compaction started; a key removed before the compaction
\* stays absent.
C26_CrashInCompactionKeepsState ==
    CrashedInCompaction =>
        /\ open(files).ok
        /\ \A k \in Keys :
               get(open(files).index, open(files).reader, open(files).files, k).res
                   = BeforeCompaction(k)

\* A set call is inside the compaction it runs.
InSet == engine = "kvs" /\ pc \in {"compact", "copy", "remove"}

\* C21: a set call runs compaction exactly when uncompacted exceeds
\* COMPACTION_THRESHOLD after its index update; a compaction, once started,
\* goes through its steps and the set returns, with uncompacted = 0 and
\* without testing the threshold again, whatever the sizes of the records.
SetDecidesCompaction ==
    (pc = "idle" /\ last'.op = "set" /\ last' # last /\ pc' \in {"idle", "compact"})
        => (pc' = "compact" <=> uncompacted' > COMPACTION_THRESHOLD)

CompactionReturns ==
    InSet => /\ pc' \in {"compact", "copy", "remove", "idle"}
             /\ pc' = "idle" => (uncompacted' = 0 /\ last'.res = Ok)

C21_CompactsOnceAndReturns ==
    [][SetDecidesCompaction /\ CompactionReturns]_vars

\* C22 (invariant I3): on a quiescent engine the writer's pos is the size of
\* the active generation's log file; right after open and right after a
\* compaction the active file is empty and pos is 0.
C22_WriterPosIsFileSize ==
    Quiescent =>
        /\ current_gen \in DOMAIN files
        /\ writer.pos = Len(files[current_gen])
        /\ (last.op = "open" \/ JustCompacted) => writer.pos = 0

\* A store that compacted and then appended two records to the new active
\* file.
C22_Witness ==
    /\ Quiescent /\ current_gen = 3 /\ DOMAIN files = {2, 3}
    /\ writer.pos = 7 /\ last.op = "remove" /\ last.res = Ok

\* Every reader of the reader map has its file in the directory.
ReadersHaveFiles ==
    (engine = "kvs" /\ pc \in {"idle", "compact", "copy", "remove"})
        => DOMAIN reader \subseteq DOMAIN files

\* A step that deletes a log file: the file is older than the compaction
\* target, its reader is deregistered already, and the target's writer has
\* been flushed, every record copied being in the target file.
DeletesInOrder ==
    \A g \in DOMAIN files \ DOMAIN files' :
        /\ pc = "remove" /\ g < comp.gen
        /\ g \notin DOMAIN reader
        /\ comp.w.buf = <<>>
        /\ Len(Lines(FileBytes(files, comp.gen), 0)) = Cardinality(DOMAIN index)

\* C23: compaction flushes the writer of the target C before it deletes any
\* old file, deregisters the reader of every generation g < C before it
\* deletes g.log, and at no step does the reader map hold a reader of a file
\* that is gone.
C23_DeregisterBeforeDelete == []ReadersHaveFiles /\ [][DeletesInOrder]_vars

\* In the middle of the removal loop of a compaction over two old
\* generations: one reader is deregistered and its file not yet deleted.
C23_Witness ==
    /\ engine = "kvs" /\ pc = "remove" /\ comp.cur # 0 /\ comp.rm # {}
    /\ comp.cur \in DOMAIN files /\ comp.cur \notin DOMAIN reader
    /\ DOMAIN index # {}

\* ------------------------------------------- set and compact as functions
\* A KvStore and its directory as one value; panicked says that the call that
\* produced it panicked.
Store(fs, idx, rd, w, gen, unc, panicked) ==
    [files |-> fs, index |-> idx, reader |-> rd, writer |-> w, current_gen |-> gen,
     uncompacted |-> unc, panicked |-> panicked]

\* Lines 210-221 of compact for the entry of one key.
CopyOne(idx, k, rd, w, fs) ==
    [reader |-> [rd EXCEPT ![idx[k].gen] =
                    idx[k].pos + Len(read_line(FileBytes(fs, idx[k].gen), idx[k].pos))],
     wr |-> BufWrite(w, fs, read_line(FileBytes(fs, idx[k].gen), idx[k].pos))]

\* The copy loop of compact over the keys todo.
RECURSIVE CopyAll(_, _, _, _, _)
CopyRest(idx, todo, c) == CopyAll(idx, todo, c.reader, c.wr.w, c.wr.files)

CopyAll(idx, todo, rd, w, fs) ==
    IF todo = {} THEN [reader |-> rd, wr |-> [w |-> w, files |-> fs]]
    ELSE CopyRest(idx, todo \ {CHOOSE k \in todo : TRUE},
                  CopyOne(idx, CHOOSE k \in todo : TRUE, rd, w, fs))

\* Lines 222-237 of compact: flush the target, drop the readers and the files
\* of the generations below it, reset the counter.
CompactDone(st, compact_gen, new_writer, rd, flushed) ==
    Store([g \in DOMAIN flushed.files \ should_removed_gens(rd, compact_gen)
               |-> flushed.files[g]],
          st.index,
          [g \in DOMAIN rd \ should_removed_gens(rd, compact_gen) |-> rd[g]],
          new_writer, st.current_gen + 2, 0, FALSE)

CompactCopied(st, compact_gen, new_writer, c) ==
    CompactDone(st, compact_gen, new_writer, c.reader, BufFlush(c.wr.w, c.wr.files))

\* Lines 204-221 of compact, the two new files being c1 and c2.
CompactInto(st, c1, c2) ==
    IF \E k \in DOMAIN st.index : st.index[k].gen \notin DOMAIN c2.reader
    THEN Store(c2.files, st.index, c2.reader, c1.writer, st.current_gen + 2,
               st.uncompacted, TRUE)
    ELSE CompactCopied(st, st.current_gen + 1, c1.writer,
                       CopyAll(st.index, DOMAIN st.index, c2.reader, c2.writer,
                               c2.files))

CompactNew(st, c1) ==
    CompactInto(st, c1, create_log_file(c1.files, c1.reader, st.current_gen + 1))

\* KvStore::compact as one function of the store.
compact(st) ==
    CompactNew(st, create_log_file(DropWriter(st.writer, st.files), st.reader,
                                   st.current_gen + 2))

\* KvStore::set as one function of the store: append, index update, and the
\* compaction when the counter exceeds the threshold.
SetAppended(st, a, i) ==
    IF i.uncompacted > COMPACTION_THRESHOLD
    THEN compact(Store(a.files, i.index, st.reader, a.w, st.current_gen,
                       i.uncompacted, FALSE))
    ELSE Store(a.files, i.index, st.reader, a.w, st.current_gen, i.uncompacted,
               FALSE)

SetWritten(st, key, a) ==
    SetAppended(st, a, SetIndex(st.index, st.uncompacted, key, st.current_gen,
                                st.writer.pos, a.w.pos))

set(st, key, value) ==
    SetWritten(st, key, append_log_file(st.writer, st.files, SetLog(key, value)))

\* What a caller sees of a store: the result of get for every key.
Observed(st) ==
    [k \in Keys |-> IF st.panicked THEN Panic
                    ELSE get(st.index, st.reader, st.files, k).res]

\* What a caller sees after the store is closed and its directory opened
\* again.
Reopened(o) ==
    [k \in Keys |-> IF ~o.ok THEN ErrSerde ELSE get(o.index, o.reader, o.files, k).res]

ObservedAfterReopen(st) == Reopened(open(DropWriter(st.writer, st.files)))

SameObservable(once, twice) ==
    /\ Observed(twice) = Observed(once)
    /\ ObservedAfterReopen(twice) = ObservedAfterReopen(once)

\* C24: in every reachable state and for every key and value, set(k, v) done
\* twice in a row leaves the same observable state as set(k, v) done once:
\* the same result of get for every key, at once and after a reopen.
C24_SetIdempotent ==
    Quiescent =>
        \A k \in Keys, v \in Values :
            ~set(Store(files, index, reader, writer, current_gen, uncompacted, FALSE),
                 k, v).panicked
            => SameObservable(
                   set(Store(files, index, reader, writer, current_gen, uncompacted,
                             FALSE), k, v),
                   set(set(Store(files, index, reader, writer, current_gen,
                                 uncompacted, FALSE), k, v), k, v))

\* The generations g for which a regular file named exactly <g>.log is in the
\* directory, in ascending order.
RECURSIVE Ascending(_)
Ascending(S) ==
    IF S = {} THEN <<>>
    ELSE <<CHOOSE x \in S : \A y \in S : x <= y>>
             \o Ascending(S \ {CHOOSE x \in S : \A y \in S : x <= y})

ExactLogFiles(dir) == {g \in 0..9 : Entry(log_file_path(g), TRUE) \in dir}

\* C25: listing the generations of a directory returns, ascending and without
\* duplicates, exactly the integers g for which a regular file named exactly
\* <g>.log exists; every other entry is ignored.
C25_ListsExactlyLogFiles ==
    engine = "kvs" =>
        get_sorted_gen_list(read_dir(files, Foreign(marker, others)))
            = Ascending(ExactLogFiles(read_dir(files, Foreign(marker, others))))

\* A state that holds a store object: open returned it and no panic unwound it.
HasStore == engine = "kvs" /\ pc \in {"idle", "compact", "copy", "remove"}

\* The index entry of the set that returned last names the generation whose
\* file the writer appended the record to (last.gen is the writer's generation
\* at the call).
LastSetIsIndexedWhereWritten ==
    (Quiescent /\ last.op = "set" /\ last.res = Ok /\ last.key \in DOMAIN index)
        => index[last.key].gen = last.gen

\* C27: in every reachable state, states after a failed compaction step
\* included, the writer handle appends to the file <current_gen>.log, so the
\* index entry a set creates with generation current_gen points into the file
\* that received the record.
C27_WriterAppendsToCurrentGen ==
    HasStore => (writer.gen = current_gen /\ LastSetIsIndexedWhereWritten)

\* The server is inside the engine call of a get request, and the step ends
\* that call.
GetReturns == srv.pc = "call" /\ srv.cur.op = "get" /\ srv'.pc # "call"

\* The readers whose position a step changed.
MovedReaders == {g \in DOMAIN reader : reader'[g] # reader[g]}

GetFrame ==
    /\ UNCHANGED <<index, uncompacted, current_gen, writer, files>>
    /\ DOMAIN reader' = DOMAIN reader
    /\ Cardinality(MovedReaders) <= 1

\* C28: get is read-only with respect to logical state: whatever it returns,
\* a get call leaves the index, the uncompacted counter, the active
\* generation, the writer position, the set of log files and their contents
\* unchanged; it only moves the position of one reader.
C28_GetIsReadOnly == [][GetReturns => GetFrame]_vars

\* A get was answered with the value by a store that holds several readers,
\* and the reader of the value's generation stands behind the record.
C28_Witness ==
    /\ engine = "kvs" /\ srv.pc = "serving"
    /\ srv.resp # <<>>
    /\ srv.sent[Len(srv.resp)].op = "get"
    /\ srv.resp[Len(srv.resp)] = Frame("Ok", "1")
    /\ Cardinality(DOMAIN reader) >= 2
    /\ \E g \in DOMAIN reader : reader[g] = 0
    /\ reader[index["a"].gen] = index["a"].pos + index["a"].len

\* The step ends a connection with an error, or fails to accept one.
ConnectionFails ==
    \/ srv.pc \in {"serving", "call"} /\ srv'.conn = "fault"
    \/ srv.pc = "listening" /\ faults' # faults

\* The step accepts a connection.
Accepts == srv.pc = "listening" /\ srv'.pc = "serving"

\* The process before this one died inside an engine call: the request in
\* hand and the connection are what that process left, not this one's.
DiedInCall == srv.cur # NoReq

EngineState == <<engine, pc, kvsVars, sled>>

\* After a failed connection the process is in the accept loop, and takes the
\* next connection as long as the run is followed.
BackInAcceptLoop ==
    srv.conn = "fault" =>
        /\ srv.pc = "listening"
        /\ srv.total < MaxReqs => ENABLED Accept

\* C29: the accept loop survives per-connection failures (a malformed request
\* frame, a failed response write, a failed accept): the server keeps the
\* engine state the completed requests produced and goes on to accept the
\* next connection; connections are served one at a time, a later one only
\* after the earlier one's request stream has ended.
C29_AcceptLoopSurvives ==
    /\ []BackInAcceptLoop
    /\ [][ConnectionFails => (srv'.pc = "listening" /\ UNCHANGED EngineState)]_vars
    /\ [][Accepts => /\ UNCHANGED EngineState
                      /\ ~DiedInCall => /\ srv.conn \notin {"open", "eof", "garbled"}
                                        /\ srv.reqs = <<>>]_vars

\* A connection ended on a malformed frame after its set was answered; the
\* server waits for the next connection and the store holds the value.
C29_Witness ==
    /\ srv.pc = "listening" /\ srv.conn = "fault" /\ faults = 0
    /\ engine = "kvs" /\ pc = "idle"
    /\ srv.sent = <<SetReq("a", "1")>> /\ srv.resp = <<Frame("Ok", "null")>>
    /\ get(index, reader, files, "a").res = "1"


====
